---- MODULE Spec2Model ----
(***************************************************************************)
(* A model of src/stream.js: the supervisor of per-account user streams.   *)
(*                                                                         *)
(* Node runs every callback to completion, so each callback of the source  *)
(* is one atomic action.  What is asynchronous in the source (the findAll  *)
(* query of startStreams, the end of a stream, the timers) is a pending    *)
(* item in the state that a later action completes.                        *)
(*                                                                         *)
(* Time is kept per timer: a timer holds the time left until it is due,    *)
(* either its whole delay or 0, and the action that lets its delay run out *)
(* may happen at any moment.  A timer callback runs only once the time     *)
(* left is 0 (setTimeout never fires early, it may fire late).             *)
(*                                                                         *)
(* The parts of the file that do not share state are given a              *)
(* specification each: the supervisor (Spec, FairSpec), the event          *)
(* classifier dataCallback (ClassifySpec), the block-event debounce        *)
(* (DebounceSpec), the decision of checkReplyAndBlock (DecideSpec) and the *)
(* catch-up fetch of checkPastMentions (CatchupSpec).  RevalidateSpec adds *)
(* a disconnect message to the supervisor, RecoverSpec a socket error and  *)
(* fair timers, and AbandonSpec runs the decision and the fetch, with      *)
(* their failures, beside a live request.                                  *)
(***************************************************************************)
EXTENDS Integers, Sequences, FiniteSets, Bags, TLC

VARIABLES
    store,          \* BtUser table: uid -> [deactivatedAt, block_new_accounts, block_low_followers]
    streams,        \* var streams: key -> request (a session number); holds 'dummy'
    reqs,           \* the requests twitter.getStream returned, by session number
    queries,        \* findAll queries in flight: a bag of their result sets
    cooldowns,      \* pending setTimeout closures of endCallback (status 420)
    timelineCalls,  \* uid -> number of twitter.getTimeline('mentions') calls made
    verifyCalls,    \* uid -> number of user.verifyCredentials() calls made
    delivered,      \* the stream event handed to dataCallback: [to, data]
    handled,        \* whether dataCallback has run on it
    calls,          \* the calls that run of dataCallback made, in order
    updateBlocksTimers, \* var updateBlocksTimers: uid -> id of the last timer set
    timeouts,       \* pending setTimeout closures of handleBlockEvent
    timerSeq,       \* number of timers handleBlockEvent has set
    sinceEvent,     \* uid -> time since its last block/unblock event, up to DEBOUNCE
    burst,          \* uid -> events of its current burst (each < DEBOUNCE after the last)
    updateCalls,    \* uid -> remoteUpdateBlocks calls made since the burst began
    callDelay,      \* uid -> sinceEvent when remoteUpdateBlocks was last called
    recipient,      \* the BtUser instance a stream was started with
    atStart,        \* the option flags it held when the stream was started
    reloads,        \* recipientBtUser.reload() calls in flight: a bag of their closures
    queued,         \* the actions.queueActions calls the last callback made
    lastEval,       \* the last run of checkReplyAndBlock or of its reload callback
    mentions,       \* the statuses a getTimeline('mentions') call returns, newest first
    fetchErr,       \* whether that call fails
    fetchDone,      \* whether its callback has run
    evaluated       \* the checkReplyAndBlock calls that callback made, in order

registryVars == <<streams, reqs, queries, cooldowns, timelineCalls, verifyCalls>>

supervisorVars == <<store, registryVars>>

classifyVars == <<delivered, handled, calls>>

debounceVars ==
    <<updateBlocksTimers, timeouts, timerSeq, sinceEvent, burst, updateCalls, callDelay>>

decideVars == <<recipient, atStart, reloads, queued, lastEval>>

catchupVars == <<mentions, fetchErr, fetchDone, evaluated>>

vars == <<supervisorVars, classifyVars, debounceVars, decideVars, catchupVars>>

-----------------------------------------------------------------------------
(* Bounds of the model *)

MaxSessions == 2
MaxQueries == 2
MaxTimers == 3
MaxReloads == 1
MaxMentions == 3

\* the step of the clock, in milliseconds
Quantum == 1000

-----------------------------------------------------------------------------
(* The accounts and the constants of the source *)

Uids == {"u1", "u2", "u3"}

\* req.setTimeout(70000, ...)
IDLE_TIMEOUT == 70000

\* setTimeout(..., 15 * 60 * 1000)
COOLDOWN == 15 * 60 * 1000

\* findAll({..., limit: 10, ...})
LIMIT == 10

\* HTTP status codes a stream's response can carry
StatusCodes == {200, 401, 403, 420}

\* the value of streams[uid] when the key is absent
undefined == 0

Min(a, b) == IF a < b THEN a ELSE b

Sub(a, d) == IF a > d THEN a - d ELSE 0

\* streams[uid] as JavaScript reads it
Lookup(map, key) == IF key \in DOMAIN map THEN map[key] ELSE undefined

\* streams[uid] = req
Put(map, key, val) == [k \in DOMAIN map \cup {key} |-> IF k = key THEN val ELSE map[k]]

\* delete streams[uid]
Delete(map, key) == [k \in DOMAIN map \ {key} |-> map[k]]

\* the sessions of account u that startStream has opened
Opened(u) == {s \in 1..Len(reqs) : reqs[s].uid = u}

\* a session is live from startStream until its endCallback has run
Live(u) == {s \in Opened(u) : reqs[s].ends = 0}

-----------------------------------------------------------------------------
(* startStreams: the sampler tick *)

\* the where clause of the findAll query
Eligible(streamingIds) ==
    {u \in Uids : /\ u \notin streamingIds
                  /\ ~store[u].deactivatedAt
                  /\ (store[u].block_new_accounts \/ store[u].block_low_followers)}

\* limit: 10, order: 'RAND()': any LIMIT of the matching rows
Samples(rows) ==
    {r \in SUBSET rows : Cardinality(r) = Min(LIMIT, Cardinality(rows))}

startStreams ==
    /\ BagCardinality(queries) < MaxQueries
    /\ LET streamingIds == DOMAIN streams
       IN \E users \in Samples(Eligible(streamingIds)) :
            queries' = queries (+) SetToBag({users})
    /\ UNCHANGED <<store, streams, reqs, cooldowns, timelineCalls, verifyCalls>>
    /\ UNCHANGED <<classifyVars, debounceVars, decideVars, catchupVars>>

-----------------------------------------------------------------------------
(* startStream *)

\* One call of startStream(user) on the state st = [streams, reqs, timelineCalls]:
\* getStream returns a new request, its idle timeout is armed, it is stored in
\* streams under the uid, and checkPastMentions issues one getTimeline call.
startStream(st, uid) ==
    LET req == Len(st.reqs) + 1
    IN [streams       |-> Put(st.streams, uid, req),
        reqs          |-> Append(st.reqs, [uid |-> uid, aborted |-> FALSE,
                                                 idleLeft |-> IDLE_TIMEOUT, ends |-> 0,
                                                 dead |-> FALSE]),
        timelineCalls |-> [st.timelineCalls EXCEPT ![uid] = @ + 1]]

\* users.forEach(startStream)
RECURSIVE forEachStartStream(_, _)
forEachStartStream(st, users) ==
    IF users = {} THEN st
    ELSE LET u == CHOOSE x \in users : TRUE
         IN forEachStartStream(startStream(st, u), users \ {u})

\* .success(function(users) { users.forEach(startStream); })
findAllSuccess(users) ==
    /\ BagIn(users, queries)
    /\ Len(reqs) + Cardinality(users) <= MaxSessions
    /\ LET st == forEachStartStream(
                    [streams |-> streams, reqs |-> reqs, timelineCalls |-> timelineCalls],
                    users)
       IN /\ streams' = st.streams
          /\ reqs' = st.reqs
          /\ timelineCalls' = st.timelineCalls
    /\ queries' = queries (-) SetToBag({users})
    /\ UNCHANGED <<store, cooldowns, verifyCalls>>
    /\ UNCHANGED <<classifyVars, debounceVars, decideVars, catchupVars>>

\* .error(function(err) { logger.error(err); })
findAllError(users) ==
    /\ BagIn(users, queries)
    /\ queries' = queries (-) SetToBag({users})
    /\ UNCHANGED <<store, streams, reqs, cooldowns, timelineCalls, verifyCalls>>
    /\ UNCHANGED <<classifyVars, debounceVars, decideVars, catchupVars>>

-----------------------------------------------------------------------------
(* The life of a request *)

\* req.on('error', function(err) { logger.error(...); }): the socket of the
\* request s fails, for instance with ECONNRESET.  The handler only logs;
\* the connection is dead and carries no data or keepalive any more.
socketError(s) ==
    /\ s \in 1..Len(reqs)
    /\ reqs[s].ends = 0
    /\ ~reqs[s].dead
    /\ reqs' = [reqs EXCEPT ![s].dead = TRUE]
    /\ UNCHANGED <<store, streams, queries, cooldowns, timelineCalls, verifyCalls>>
    /\ UNCHANGED <<classifyVars, debounceVars, decideVars, catchupVars>>

\* Data or a keepalive arrives on a stream that has neither ended nor been
\* aborted: the socket's idle timer starts again.
keepalive(s) ==
    /\ s \in 1..Len(reqs)
    /\ reqs[s].ends = 0
    /\ ~reqs[s].aborted
    /\ ~reqs[s].dead
    /\ reqs[s].idleLeft < IDLE_TIMEOUT
    /\ reqs' = [reqs EXCEPT ![s].idleLeft = IDLE_TIMEOUT]
    /\ UNCHANGED <<store, streams, queries, cooldowns, timelineCalls, verifyCalls>>
    /\ UNCHANGED <<classifyVars, debounceVars, decideVars, catchupVars>>

\* a timeout handler that forgets to abort the request
onTimeoutNoAbort(req) == req

\* what the idle timeout callback does to the request: req.abort()
onTimeout(req) == [req EXCEPT !.aborted = TRUE]

\* req.setTimeout(70000, function() { ...; req.abort(); })
streamTimeout(s) ==
    /\ s \in 1..Len(reqs)
    /\ reqs[s].ends = 0
    /\ ~reqs[s].aborted
    /\ reqs[s].idleLeft = 0
    /\ reqs' = [reqs EXCEPT ![s] = onTimeout(@)]
    /\ UNCHANGED <<store, streams, queries, cooldowns, timelineCalls, verifyCalls>>
    /\ UNCHANGED <<classifyVars, debounceVars, decideVars, catchupVars>>

\* the elements of a sequence
Range(seq) == {seq[i] : i \in 1..Len(seq)}

\* a handler that asks for the credentials to be verified whatever the status
endCallbackStatementsAnyStatus(statusCode) ==
    <<"verifyCredentials">>
        \o (IF statusCode = 420 THEN <<"setTimeout">> ELSE <<"delete">>)

\* a handler that removes the entry before it looks at the credentials
endCallbackStatementsDeleteFirst(statusCode) ==
    (IF statusCode = 420 THEN <<"setTimeout">> ELSE <<"delete">>)
        \o (IF statusCode = 401 \/ statusCode = 403 THEN <<"verifyCredentials">> ELSE <<>>)

\* a handler that also waits fifteen minutes after a 403
endCallbackStatementsForbiddenWaits(statusCode) ==
    (IF statusCode = 401 \/ statusCode = 403 THEN <<"verifyCredentials">> ELSE <<>>)
        \o (IF statusCode = 420 \/ statusCode = 403 THEN <<"setTimeout">> ELSE <<"delete">>)

\* the statements endCallback runs for a status code, in the order of the
\* source: user.verifyCredentials(), then setTimeout(...) or delete
endCallbackStatements(statusCode) ==
    (IF statusCode = 401 \/ statusCode = 403 THEN <<"verifyCredentials">> ELSE <<>>)
        \o (IF statusCode = 420 THEN <<"setTimeout">> ELSE <<"delete">>)

\* endCallback(user, httpIncomingMessage) for the request s of user.  The
\* transport delivers the end of a response once, whether the server closed
\* the stream or the request was aborted.  Once it has run, the socket of the
\* request and its idle timer are of no account any more.
endCallback(s, statusCode) ==
    /\ s \in 1..Len(reqs)
    /\ reqs[s].ends = 0
    /\ LET uid == reqs[s].uid
           did == endCallbackStatements(statusCode)
       IN /\ verifyCalls' =
                IF "verifyCredentials" \in Range(did)
                THEN [verifyCalls EXCEPT ![uid] = @ + 1]
                ELSE verifyCalls
          /\ cooldowns' =
                IF "setTimeout" \in Range(did)
                THEN cooldowns \cup
                        {[by |-> s, uid |-> uid, stream |-> Lookup(streams, uid),
                          left |-> COOLDOWN]}
                ELSE cooldowns
          /\ streams' = IF "delete" \in Range(did) THEN Delete(streams, uid) ELSE streams
    /\ reqs' = [reqs EXCEPT ![s] = [@ EXCEPT !.ends = @ + 1, !.idleLeft = 0,
                                             !.dead = FALSE]]
    /\ UNCHANGED <<store, queries, timelineCalls>>
    /\ UNCHANGED <<classifyVars, debounceVars, decideVars, catchupVars>>

\* a closure that finds the stream unchanged and still leaves its entry
cooldownTimeoutKeepsEntry(t) ==
    /\ t \in cooldowns
    /\ t.left = 0
    /\ cooldowns' = cooldowns \ {t}
    /\ UNCHANGED <<store, streams, reqs, queries, timelineCalls, verifyCalls>>
    /\ UNCHANGED <<classifyVars, debounceVars, decideVars, catchupVars>>

\* the closure endCallback hands to setTimeout
cooldownTimeout(t) ==
    /\ t \in cooldowns
    /\ t.left = 0
    /\ streams' = IF t.stream = Lookup(streams, t.uid)
                  THEN Delete(streams, t.uid)
                  ELSE streams
    /\ cooldowns' = cooldowns \ {t}
    /\ UNCHANGED <<store, reqs, queries, timelineCalls, verifyCalls>>
    /\ UNCHANGED <<classifyVars, debounceVars, decideVars, catchupVars>>

-----------------------------------------------------------------------------
(* Time and the account table *)

\* 70 seconds pass on the open request s with no data and no keepalive
idleElapses(s) ==
    /\ s \in 1..Len(reqs)
    /\ reqs[s].ends = 0
    /\ ~reqs[s].aborted
    /\ reqs[s].idleLeft > 0
    /\ reqs' = [reqs EXCEPT ![s].idleLeft = Sub(@, IDLE_TIMEOUT)]
    /\ UNCHANGED <<store, streams, queries, cooldowns, timelineCalls, verifyCalls>>
    /\ UNCHANGED <<classifyVars, debounceVars, decideVars, catchupVars>>

\* 15 minutes pass after the termination that armed the timer t
cooldownElapses(t) ==
    /\ t \in cooldowns
    /\ t.left > 0
    /\ cooldowns' = (cooldowns \ {t}) \cup {[t EXCEPT !.left = Sub(@, COOLDOWN)]}
    /\ UNCHANGED <<store, streams, reqs, queries, timelineCalls, verifyCalls>>
    /\ UNCHANGED <<classifyVars, debounceVars, decideVars, catchupVars>>

\* user.verifyCredentials() finds the credentials of u revoked and marks the
\* account deactivated in the table.
markDeactivated(u) ==
    /\ verifyCalls[u] > 0
    /\ ~store[u].deactivatedAt
    /\ store' = [store EXCEPT ![u].deactivatedAt = TRUE]
    /\ UNCHANGED <<streams, reqs, queries, cooldowns, timelineCalls, verifyCalls>>
    /\ UNCHANGED <<classifyVars, debounceVars, decideVars, catchupVars>>

-----------------------------------------------------------------------------
(* dataCallback: the events of a stream *)

\* the accounts whose streams deliver events
Recipients == {"u1", "u2"}

\* The JSON User objects that events and mentions carry.  created_at is <<>>
\* when the object has none, else <<t>> with t the creation time in
\* seconds.
User(id_str, created_at, followers_count) ==
    [id_str |-> id_str, created_at |-> created_at, followers_count |-> followers_count]

\* An event as dataCallback receives it.  An absent object is <<>>, an absent
\* or empty string is "", and retweeted_status is whether the field is set.
Data(disconnect, warning, event, target, text, retweeted_status, user) ==
    [present |-> TRUE, disconnect |-> disconnect, warning |-> warning, event |-> event,
     target |-> target, text |-> text, retweeted_status |-> retweeted_status, user |-> user]

\* dataCallback called with no data
null ==
    [present |-> FALSE, disconnect |-> <<>>, warning |-> <<>>, event |-> "",
     target |-> <<>>, text |-> "", retweeted_status |-> FALSE, user |-> <<>>]

EventUsers == {User("a", <<1>>, 5), User("u1", <<1>>, 100)}

DataValues ==
    {null} \cup
    {Data(d, w, e, t, x, r, u) :
        d \in {<<>>, <<2>>, <<6>>, <<13>>, <<14>>},
        w \in {<<>>, <<"FOLLOWS_OVER_LIMIT">>, <<"FALLING_BEHIND">>},
        e \in {"", "block", "unblock", "follow"},
        t \in {<<>>, <<User("b", <<1>>, 20)>>},
        x \in {"", "@u1 hi"},
        r \in BOOLEAN,
        u \in {<<>>} \cup {<<m>> : m \in EventUsers}}

\* a call dataCallback makes: the function, the BtUser it is made for, and
\* the JSON User object handed over, if any
Call(fn, uid, user) == [fn |-> fn, uid |-> uid, user |-> user]

\* a mention test that does not look at retweeted_status
isMentionAnyStatus(data) == data.text # "" /\ data.user # <<>>

\* data.text && !data.retweeted_status && data.user
isMention(data) == data.text # "" /\ ~data.retweeted_status /\ data.user # <<>>

\* a handler whose tests are separate ifs, not one chain of else-ifs
dataCallbackEveryRule(recipientUid, data) ==
    IF ~data.present THEN <<>>
    ELSE (IF data.disconnect # <<>> /\ data.disconnect[1] \in {6, 13, 14}
          THEN <<Call("verifyCredentials", recipientUid, <<>>)>>
          ELSE <<>>)
         \o (IF data.event # "" /\ data.target # <<>>
             THEN <<Call("storeUser", recipientUid, data.target)>>
             ELSE <<>>)
         \o (IF data.event = "unblock" \/ data.event = "block"
             THEN <<Call("handleBlockEvent", recipientUid, <<>>)>>
             ELSE <<>>)
         \o (IF data.text # "" /\ ~data.retweeted_status /\ data.user # <<>>
             THEN <<Call("checkReplyAndBlock", recipientUid, data.user)>>
             ELSE <<>>)

\* dataCallback(recipientBtUser, err, data, ret, res): the calls it makes
dataCallback(recipientUid, data) ==
    IF ~data.present THEN <<>>
    ELSE IF data.disconnect # <<>>
    THEN IF data.disconnect[1] = 6 \/ data.disconnect[1] = 13 \/ data.disconnect[1] = 14
         THEN <<Call("verifyCredentials", recipientUid, <<>>)>>
         ELSE <<>>
    ELSE IF data.warning # <<>>
    THEN <<>>
    ELSE IF data.event # ""
    THEN (IF data.target # <<>>
          THEN <<Call("storeUser", recipientUid, data.target)>>
          ELSE <<>>)
         \o (IF data.event = "unblock" \/ data.event = "block"
             THEN <<Call("handleBlockEvent", recipientUid, <<>>)>>
             ELSE <<>>)
    ELSE IF isMention(data)
    THEN <<Call("checkReplyAndBlock", recipientUid, data.user)>>
    ELSE <<>>

\* the functions a run of dataCallback called
Called(cs) == {cs[i].fn : i \in 1..Len(cs)}

\* dataCallback runs on the event
handle ==
    /\ ~handled
    /\ calls' = dataCallback(delivered.to, delivered.data)
    /\ handled' = TRUE
    /\ UNCHANGED delivered
    /\ UNCHANGED <<supervisorVars, debounceVars, decideVars, catchupVars>>

\* the disconnect messages of a stream: a code that asks for no action, and
\* the codes for revoked, deleted and suspended
DisconnectData ==
    {Data(<<code>>, <<>>, "", <<>>, "", FALSE, <<>>) : code \in {2, 6, 13, 14}}

\* The event waiting for the stream of delivered.to arrives on its live
\* request s: dataCallback runs, and each call of verifyCredentials it makes
\* is counted for the account.  The data is activity on the socket, so the
\* idle window starts again.
streamData(s) ==
    /\ ~handled
    /\ s \in 1..Len(reqs)
    /\ reqs[s].ends = 0
    /\ ~reqs[s].aborted
    /\ ~reqs[s].dead
    /\ reqs[s].uid = delivered.to
    /\ calls' = dataCallback(delivered.to, delivered.data)
    /\ handled' = TRUE
    /\ verifyCalls' =
          [verifyCalls EXCEPT ![delivered.to] =
              @ + Cardinality({i \in 1..Len(calls') : calls'[i].fn = "verifyCredentials"})]
    /\ reqs' = [reqs EXCEPT ![s].idleLeft = IDLE_TIMEOUT]
    /\ UNCHANGED <<store, streams, queries, cooldowns, timelineCalls, delivered>>
    /\ UNCHANGED <<debounceVars, decideVars, catchupVars>>

-----------------------------------------------------------------------------
(* handleBlockEvent: the debounced call of remoteUpdateBlocks *)

\* setTimeout(..., 2000)
DEBOUNCE == 2000

\* the events that make dataCallback call handleBlockEvent
BlockEventData ==
    {data \in DataValues : "handleBlockEvent" \in Called(dataCallback("u1", data))}

\* a clearTimeout that leaves the timer pending
clearTimeoutNoop(pending, timerId) == pending

\* clearTimeout(timerId): the timer, if it is still pending, never fires
clearTimeout(pending, timerId) == {t \in pending : t.id # timerId}

\* a handleBlockEvent that sets the new timer without clearing the old one
handleBlockEventNoClear(uid) ==
    /\ timerSeq < MaxTimers
    /\ LET id == timerSeq + 1
       IN /\ timeouts' = timeouts \cup {[id |-> id, uid |-> uid, left |-> DEBOUNCE]}
          /\ updateBlocksTimers' = [updateBlocksTimers EXCEPT ![uid] = id]
          /\ timerSeq' = id
    /\ LET begins == burst[uid] = 0 \/ sinceEvent[uid] >= DEBOUNCE
       IN /\ burst' = [burst EXCEPT ![uid] = IF begins THEN 1 ELSE @ + 1]
          /\ updateCalls' = [updateCalls EXCEPT ![uid] = IF begins THEN 0 ELSE @]
          /\ callDelay' = [callDelay EXCEPT ![uid] = IF begins THEN 0 ELSE @]
    /\ sinceEvent' = [sinceEvent EXCEPT ![uid] = 0]

\* handleBlockEvent(recipientBtUser, data).  The last four conjuncts keep
\* the measurements of the burst: an event that comes DEBOUNCE or more after
\* the previous one begins a new burst.
handleBlockEvent(uid) ==
    /\ timerSeq < MaxTimers
    /\ LET timerId == updateBlocksTimers[uid]
           id == timerSeq + 1
       IN /\ timeouts' = (IF timerId # undefined
                          THEN clearTimeout(timeouts, timerId)
                          ELSE timeouts)
                             \cup {[id |-> id, uid |-> uid, left |-> DEBOUNCE]}
          /\ updateBlocksTimers' = [updateBlocksTimers EXCEPT ![uid] = id]
          /\ timerSeq' = id
    /\ LET begins == burst[uid] = 0 \/ sinceEvent[uid] >= DEBOUNCE
       IN /\ burst' = [burst EXCEPT ![uid] = IF begins THEN 1 ELSE @ + 1]
          /\ updateCalls' = [updateCalls EXCEPT ![uid] = IF begins THEN 0 ELSE @]
          /\ callDelay' = [callDelay EXCEPT ![uid] = IF begins THEN 0 ELSE @]
    /\ sinceEvent' = [sinceEvent EXCEPT ![uid] = 0]

\* a block or unblock event arrives on the stream of uid
blockEvent(uid, data) ==
    /\ "handleBlockEvent" \in Called(dataCallback(uid, data))
    /\ handleBlockEvent(uid)
    /\ UNCHANGED <<supervisorVars, classifyVars, decideVars, catchupVars>>

\* function() { remoteUpdateBlocks(recipientBtUser); }
updateBlocksTimeout(t) ==
    /\ t \in timeouts
    /\ t.left = 0
    /\ timeouts' = timeouts \ {t}
    /\ updateCalls' = [updateCalls EXCEPT ![t.uid] = @ + 1]
    /\ callDelay' = [callDelay EXCEPT ![t.uid] = sinceEvent[t.uid]]
    /\ UNCHANGED <<updateBlocksTimers, timerSeq, sinceEvent, burst>>
    /\ UNCHANGED <<supervisorVars, classifyVars, decideVars, catchupVars>>

\* Quantum milliseconds pass
tick ==
    /\ \/ \E t \in timeouts : t.left > 0
       \/ \E uid \in Recipients : burst[uid] > 0 /\ sinceEvent[uid] < DEBOUNCE
    /\ timeouts' = {[t EXCEPT !.left = Sub(@, Quantum)] : t \in timeouts}
    /\ sinceEvent' = [uid \in Recipients |->
                        IF burst[uid] > 0 THEN Min(sinceEvent[uid] + Quantum, DEBOUNCE)
                        ELSE sinceEvent[uid]]
    /\ UNCHANGED <<updateBlocksTimers, timerSeq, burst, updateCalls, callDelay>>
    /\ UNCHANGED <<supervisorVars, classifyVars, decideVars, catchupVars>>

-----------------------------------------------------------------------------
(* checkReplyAndBlock: the block decision *)

MIN_AGE == 7

MIN_FOLLOWERS == 15

\* The seconds of a day.  Dates are kept in seconds, not in milliseconds as
\* in the source, to stay within the range of 32-bit integers: the division
\* of ageInDays by 1000 is made in the unit, the one by 86400 in isNew.
Day == 86400

\* new Date() when a mention is evaluated
Now == 100 * Day

\* the senders of mentions: another account, of every age and following
\* around the two thresholds, and the recipient u1 itself
Mentioners ==
    {User("a", c, f) :
        c \in {<<>>, <<Now - 3 * Day>>, <<Now - 7 * Day + 1>>, <<Now - 7 * Day>>,
               <<Now - 30 * Day>>},
        f \in {5, 14, 15, 100}}
    \cup {User("u1", <<Now - 3 * Day>>, 5)}

\* (new Date() - Date.parse(mentioningUser.created_at)) / 1000
age(mentioningUser) == Now - mentioningUser.created_at[1]

\* ageInDays < MIN_AGE, with ageInDays = seconds / 86400
isNew(seconds) == seconds < MIN_AGE * Day

\* enqueueBlock(sourceUser, sinkUserId, cause): the queueActions call
enqueueBlock(sourceUid, sinkUserId, cause) ==
    [source |-> sourceUid, sinks |-> <<sinkUserId>>, type |-> "BLOCK", cause |-> cause]

\* the outer conditions of checkReplyAndBlock: whether it reloads the
\* recipient; user is <<>> for no object, else <<mentioningUser>>
reloads_(uid, user) ==
    /\ user # <<>>
    /\ user[1].created_at # <<>>
    /\ user[1].id_str # uid
    /\ (isNew(age(user[1])) \/ user[1].followers_count < MIN_FOLLOWERS)

\* a decision that tests the follower count before the age
decideFollowersFirst(instance, seconds, mentioningUser) ==
    IF mentioningUser.followers_count < MIN_FOLLOWERS /\ instance.block_low_followers
    THEN <<[source |-> instance.uid, sinks |-> <<mentioningUser.id_str>>,
            type |-> "BLOCK", cause |-> "LOW_FOLLOWERS"]>>
    ELSE IF seconds < MIN_AGE * Day /\ instance.block_new_accounts
    THEN <<[source |-> instance.uid, sinks |-> <<mentioningUser.id_str>>,
            type |-> "BLOCK", cause |-> "NEW_ACCOUNT"]>>
    ELSE <<>>

\* the body of the reload callback: the calls of enqueueBlock it makes
decide(instance, seconds, mentioningUser) ==
    IF isNew(seconds) /\ instance.block_new_accounts
    THEN <<enqueueBlock(instance.uid, mentioningUser.id_str, "NEW_ACCOUNT")>>
    ELSE IF mentioningUser.followers_count < MIN_FOLLOWERS /\ instance.block_low_followers
    THEN <<enqueueBlock(instance.uid, mentioningUser.id_str, "LOW_FOLLOWERS")>>
    ELSE <<>>

\* a reload that keeps the flags the instance was loaded with
reloadKeepsSnapshot(instance, row) == instance

\* recipientBtUser.reload(): the instance takes the columns of its row
reload(instance, row) ==
    [instance EXCEPT !.block_new_accounts = row.block_new_accounts,
                     !.block_low_followers = row.block_low_followers]

\* the option flags of a row or an instance
Flags(r) ==
    [block_new_accounts |-> r.block_new_accounts,
     block_low_followers |-> r.block_low_followers]

\* checkReplyAndBlock(recipientBtUser, mentioningUser) up to the reload
checkReplyAndBlock(user) ==
    /\ IF reloads_(recipient.uid, user)
       THEN /\ BagCardinality(reloads) < MaxReloads
            /\ reloads' = reloads (+)
                    SetToBag({[mentioningUser |-> user[1], ageInDays |-> age(user[1])]})
            /\ lastEval' = [user |-> user, stage |-> "reloading", row |-> lastEval.row]
       ELSE /\ reloads' = reloads
            /\ lastEval' = [user |-> user, stage |-> "skipped", row |-> lastEval.row]
    /\ queued' = <<>>
    /\ UNCHANGED <<recipient, atStart, store>>
    /\ UNCHANGED <<registryVars, classifyVars, debounceVars, catchupVars>>

\* a mention arrives on the stream: dataCallback calls checkReplyAndBlock
mention(data) ==
    /\ "checkReplyAndBlock" \in Called(dataCallback(recipient.uid, data))
    /\ checkReplyAndBlock(data.user)

\* .success(function(user) { ... }) of the reload
reloadSuccess(r) ==
    /\ BagIn(r, reloads)
    /\ reloads' = reloads (-) SetToBag({r})
    /\ recipient' = reload(recipient, store[recipient.uid])
    /\ queued' = decide(recipient', r.ageInDays, r.mentioningUser)
    /\ lastEval' = [user |-> <<r.mentioningUser>>, stage |-> "decided",
                    row |-> Flags(store[recipient.uid])]
    /\ UNCHANGED <<atStart, store>>
    /\ UNCHANGED <<registryVars, classifyVars, debounceVars, catchupVars>>

\* a reload whose failure runs the decision on the flags the instance holds
reloadErrorDecides(r) ==
    /\ BagIn(r, reloads)
    /\ reloads' = reloads (-) SetToBag({r})
    /\ queued' = decide(recipient, r.ageInDays, r.mentioningUser)
    /\ lastEval' = [user |-> <<r.mentioningUser>>, stage |-> "failed", row |-> lastEval.row]
    /\ UNCHANGED <<recipient, atStart, store>>
    /\ UNCHANGED <<registryVars, classifyVars, debounceVars, catchupVars>>

\* the reload fails: it has no error callback
reloadError(r) ==
    /\ BagIn(r, reloads)
    /\ reloads' = reloads (-) SetToBag({r})
    /\ queued' = <<>>
    /\ lastEval' = [user |-> <<r.mentioningUser>>, stage |-> "failed", row |-> lastEval.row]
    /\ UNCHANGED <<recipient, atStart, store>>
    /\ UNCHANGED <<registryVars, classifyVars, debounceVars, catchupVars>>

\* the user of the account changes one of the two options
settingsWrite(uid, column) ==
    /\ store' = [store EXCEPT ![uid][column] = ~@]
    /\ UNCHANGED <<recipient, atStart, reloads, queued, lastEval>>
    /\ UNCHANGED <<registryVars, classifyVars, debounceVars, catchupVars>>

\* the mentions a stream or a catch-up fetch can hand to checkReplyAndBlock
MentionData ==
    {Data(<<>>, <<>>, "", <<>>, "@u1 hi", FALSE, <<m>>) : m \in Mentioners}

-----------------------------------------------------------------------------
(* checkPastMentions: the catch-up fetch *)

\* the senders of past mentions: two accounts, each seen with two follower
\* counts
StatusUsers == {User(i, <<Now - 3 * Day>>, f) : i \in {"a", "b"}, f \in {5, 100}}

\* a status of the mentions timeline
Status(user) == [user |-> user]

\* the result sets of up to MaxMentions statuses
Timelines ==
    UNION {[1..n -> {Status(u) : u \in StatusUsers}] : n \in 0..MaxMentions}

\* mentions.map(function(status) { return status.user; })
mapUser(statuses) == [i \in 1..Len(statuses) |-> statuses[i].user]

\* an index that keeps the first value of each key
RECURSIVE indexByFirst(_)
indexByFirst(list) ==
    IF list = <<>> THEN <<>>
    ELSE LET value == list[1]
         IN Put(indexByFirst(SubSeq(list, 2, Len(list))), value.id_str, value)

\* _.indexBy(list, 'id_str'): result[value.id_str] = value for each value of
\* the list in turn
RECURSIVE indexBy(_)
indexBy(list) ==
    IF list = <<>> THEN <<>>
    ELSE LET value == list[Len(list)]
         IN Put(indexBy(SubSeq(list, 1, Len(list) - 1)), value.id_str, value)

\* Object.keys(mentioningUsers), as a sequence
RECURSIVE keys(_)
keys(map) ==
    IF DOMAIN map = {} THEN <<>>
    ELSE LET k == CHOOSE x \in DOMAIN map : TRUE
         IN <<k>> \o keys(Delete(map, k))

\* a callback that evaluates the sender of every status, without the index
pastMentionsEveryStatus(uid, err, statuses) ==
    IF err THEN <<>>
    ELSE [i \in 1..Len(statuses) |->
            Call("checkReplyAndBlock", uid, <<statuses[i].user>>)]

\* the callback of twitter.getTimeline('mentions', ...) in checkPastMentions:
\* the calls of checkReplyAndBlock it makes
pastMentions(uid, err, statuses) ==
    IF err THEN <<>>
    ELSE LET mentioningUsers == indexBy(mapUser(statuses))
             ids == keys(mentioningUsers)
         IN [i \in 1..Len(ids) |->
                Call("checkReplyAndBlock", uid, <<mentioningUsers[ids[i]]>>)]

\* the catch-up fetch of u1's stream completes
getTimelineCallback ==
    /\ ~fetchDone
    /\ evaluated' = pastMentions("u1", fetchErr, mentions)
    /\ fetchDone' = TRUE
    /\ UNCHANGED <<mentions, fetchErr>>
    /\ UNCHANGED <<supervisorVars, classifyVars, debounceVars, decideVars>>

-----------------------------------------------------------------------------
(* The specifications *)

\* The account table when the process starts: u1 blocks new accounts, u2
\* blocks accounts with few followers and may be deactivated already, u3 has
\* no option enabled.
Tables ==
    {[u \in Uids |-> [deactivatedAt |-> (u = "u2" /\ d),
                      block_new_accounts |-> (u = "u1"),
                      block_low_followers |-> (u = "u2")]] : d \in BOOLEAN}

SupervisorInit ==
    /\ store \in Tables
    /\ streams = [k \in {"dummy"} |-> 1]
    /\ reqs = <<>>
    /\ queries = EmptyBag
    /\ cooldowns = {}
    /\ timelineCalls = [u \in Uids |-> 0]
    /\ verifyCalls = [u \in Uids |-> 0]

\* the supervisor before its first tick, with every account active
SupervisorIdle ==
    /\ SupervisorInit
    /\ \A u \in Uids : ~store[u].deactivatedAt

ClassifyIdle ==
    /\ delivered = [to |-> "u1", data |-> null]
    /\ handled = TRUE
    /\ calls = <<>>

DebounceInit ==
    /\ updateBlocksTimers = [uid \in Recipients |-> undefined]
    /\ timeouts = {}
    /\ timerSeq = 0
    /\ sinceEvent = [uid \in Recipients |-> 0]
    /\ burst = [uid \in Recipients |-> 0]
    /\ updateCalls = [uid \in Recipients |-> 0]
    /\ callDelay = [uid \in Recipients |-> 0]

DecideIdle ==
    /\ recipient = [uid |-> "u1", block_new_accounts |-> TRUE, block_low_followers |-> FALSE]
    /\ atStart = Flags(recipient)
    /\ reloads = EmptyBag
    /\ queued = <<>>
    /\ lastEval = [user |-> <<>>, stage |-> "none", row |-> atStart]

CatchupIdle ==
    /\ mentions = <<>>
    /\ fetchErr = FALSE
    /\ fetchDone = TRUE
    /\ evaluated = <<>>

Init == SupervisorInit /\ ClassifyIdle /\ DebounceInit /\ DecideIdle /\ CatchupIdle

Next ==
    \/ startStreams
    \/ \E users \in SUBSET Uids : findAllSuccess(users)
    \/ \E users \in SUBSET Uids : findAllError(users)
    \/ \E s \in 1..MaxSessions : keepalive(s)
    \/ \E s \in 1..MaxSessions : streamTimeout(s)
    \/ \E s \in 1..MaxSessions, statusCode \in StatusCodes : endCallback(s, statusCode)
    \/ \E t \in cooldowns : cooldownTimeout(t)
    \/ \E s \in 1..MaxSessions : idleElapses(s)
    \/ \E t \in cooldowns : cooldownElapses(t)
    \/ \E u \in Uids : markDeactivated(u)

Spec == Init /\ [][Next]_vars

\* An aborted request's response ends.
abortEnds(s) ==
    /\ s \in 1..Len(reqs)
    /\ reqs[s].aborted
    /\ \E statusCode \in StatusCodes : endCallback(s, statusCode)

\* Node runs a timer callback that is due, and delivers the end of an aborted
\* request's response.
FairSpec ==
    /\ Spec
    /\ \A s \in 1..MaxSessions : WF_vars(streamTimeout(s)) /\ WF_vars(abortEnds(s))

\* dataCallback on every event of DataValues, for either recipient
ClassifyInit ==
    /\ SupervisorIdle
    /\ DebounceInit
    /\ DecideIdle
    /\ CatchupIdle
    /\ delivered \in [to : Recipients, data : DataValues]
    /\ handled = FALSE
    /\ calls = <<>>

ClassifyNext == handle

ClassifySpec == ClassifyInit /\ [][ClassifyNext]_vars

\* block and unblock events, their timers, and the clock
DebounceNext ==
    \/ \E uid \in Recipients, data \in BlockEventData : blockEvent(uid, data)
    \/ \E t \in timeouts : updateBlocksTimeout(t)
    \/ tick

DebounceStart ==
    SupervisorIdle /\ ClassifyIdle /\ DebounceInit /\ DecideIdle /\ CatchupIdle

DebounceSpec == DebounceStart /\ [][DebounceNext]_vars

\* The stream of u1 was started with the options its row then held, whatever
\* they were.
DecideInit ==
    /\ store \in {[u \in Uids |-> [deactivatedAt |-> FALSE,
                                    block_new_accounts |-> (u = "u1" /\ n),
                                    block_low_followers |-> (u = "u1" /\ l)]] :
                      n \in BOOLEAN, l \in BOOLEAN}
    /\ streams = [k \in {"dummy"} |-> 1]
    /\ reqs = <<>>
    /\ queries = EmptyBag
    /\ cooldowns = {}
    /\ timelineCalls = [u \in Uids |-> 0]
    /\ verifyCalls = [u \in Uids |-> 0]
    /\ ClassifyIdle
    /\ DebounceInit
    /\ CatchupIdle
    /\ recipient = [uid |-> "u1",
                    block_new_accounts |-> store["u1"].block_new_accounts,
                    block_low_followers |-> store["u1"].block_low_followers]
    /\ atStart = Flags(recipient)
    /\ reloads = EmptyBag
    /\ queued = <<>>
    /\ lastEval = [user |-> <<>>, stage |-> "none", row |-> atStart]

DecideNext ==
    \/ \E data \in MentionData : mention(data)
    \/ \E r \in BagToSet(reloads) : reloadSuccess(r)
    \/ \E r \in BagToSet(reloads) : reloadError(r)
    \/ \E column \in {"block_new_accounts", "block_low_followers"} :
            settingsWrite("u1", column)

DecideSpec == DecideInit /\ [][DecideNext]_vars

\* the callback of the catch-up fetch on every result set of Timelines, and
\* on a failed fetch
CatchupInit ==
    /\ SupervisorIdle
    /\ ClassifyIdle
    /\ DebounceInit
    /\ DecideIdle
    /\ mentions \in Timelines
    /\ fetchErr \in BOOLEAN
    /\ fetchDone = FALSE
    /\ evaluated = <<>>

CatchupNext == getTimelineCallback

CatchupSpec == CatchupInit /\ [][CatchupNext]_vars

\* the supervisor with a disconnect message on its way to the stream of u1
RevalidateInit ==
    /\ SupervisorInit
    /\ DebounceInit
    /\ DecideIdle
    /\ CatchupIdle
    /\ delivered \in [to : {"u1"}, data : DisconnectData]
    /\ handled = FALSE
    /\ calls = <<>>

\* The idle timer of a request is left out: it only decides when a request is
\* aborted, and endCallback may run on a live request at any time anyway.
RevalidateNext ==
    \/ startStreams
    \/ \E users \in SUBSET Uids : findAllSuccess(users)
    \/ \E users \in SUBSET Uids : findAllError(users)
    \/ \E s \in 1..MaxSessions, statusCode \in StatusCodes : endCallback(s, statusCode)
    \/ \E t \in cooldowns : cooldownTimeout(t)
    \/ \E t \in cooldowns : cooldownElapses(t)
    \/ \E u \in Uids : markDeactivated(u)
    \/ \E s \in 1..MaxSessions : streamData(s)

RevalidateSpec == RevalidateInit /\ [][RevalidateNext]_vars

\* the supervisor with u1 the one account to stream for
RecoverInit ==
    /\ Init
    /\ store["u2"].deactivatedAt

\* The supervisor with sockets that fail.  The account table stays as it is
\* and every query succeeds.
RecoverNext ==
    \/ startStreams
    \/ \E users \in SUBSET Uids : findAllSuccess(users)
    \/ \E s \in 1..MaxSessions : keepalive(s)
    \/ \E s \in 1..MaxSessions : socketError(s)
    \/ \E s \in 1..MaxSessions : streamTimeout(s)
    \/ \E s \in 1..MaxSessions, statusCode \in StatusCodes : endCallback(s, statusCode)
    \/ \E t \in cooldowns : cooldownTimeout(t)
    \/ \E s \in 1..MaxSessions : idleElapses(s)
    \/ \E t \in cooldowns : cooldownElapses(t)

\* Time passes for every timer, Node runs the callbacks of the timers that
\* are due, and the response of an aborted request ends.
RecoverSpec ==
    /\ RecoverInit
    /\ [][RecoverNext]_vars
    /\ \A s \in 1..MaxSessions :
          /\ WF_vars(idleElapses(s))
          /\ WF_vars(streamTimeout(s))
          /\ WF_vars(abortEnds(s))
    /\ WF_vars(\E t \in cooldowns : cooldownElapses(t))
    /\ WF_vars(\E t \in cooldowns : cooldownTimeout(t))

-----------------------------------------------------------------------------
(* The claims *)

\* the cooldown window of a 420 termination of one of u's sessions is running
InCooldown(u) == \E t \in cooldowns : t.uid = u /\ t.left > 0

\* C1: in every reachable state every account has at most one live session
\* (opened by startStream, its endCallback not yet run).
AtMostOneLiveSession == \A u \in Uids : Cardinality(Live(u)) <= 1

\* C2: while the 15 minutes after a 420 termination of a session of u are
\* running, no step opens a new session for u.
NoOpenDuringCooldown ==
    [][\A u \in Uids : InCooldown(u) => Opened(u)' = Opened(u)]_vars

\* C3: when the removal that the 420 termination of session S scheduled
\* fires, it changes streams only if streams references S itself.
RemovalOnlyOfOwnSession ==
    [][\A t \in cooldowns :
          (t \notin cooldowns' /\ streams' # streams) => Lookup(streams, t.uid) = t.by]_vars

\* C4: a step opens a session for account u (requests it, registers it and
\* starts its catch-up fetch) only if streams holds no entry for u; with an
\* entry, streams[u], the requests and the fetches of u stay as they are.
OpenOnlyIfAbsent ==
    [][\A u \in Uids :
          u \in DOMAIN streams =>
              /\ Opened(u)' = Opened(u)
              /\ timelineCalls'[u] = timelineCalls[u]
              /\ (u \in DOMAIN streams' => streams'[u] = streams[u])]_vars

\* the idle window of the live request s has run out and its timeout
\* callback has not run yet
Stale(s) ==
    /\ s \in 1..Len(reqs)
    /\ reqs[s].ends = 0
    /\ ~reqs[s].aborted
    /\ reqs[s].idleLeft = 0

ReshareNeverEvaluated ==
    (handled /\ delivered.data.retweeted_status) => "checkReplyAndBlock" \notin Called(calls)

\* a reshare with text and author was handled, and a post without the
\* reshare field is evaluated
ReshareNeverEvaluatedWitness ==
    /\ handled
    /\ delivered.data = Data(<<>>, <<>>, "", <<>>, "@u1 hi", TRUE, <<User("a", <<1>>, 5)>>)
    /\ calls = <<>>

\* the remoteUpdateBlocks timers of uid that are pending
PendingUpdate(uid) == {t \in timeouts : t.uid = uid}

Sender == lastEval.user[1]

\* the sender's age is under 7 days
AgeUnder7Days(m) == m.created_at # <<>> /\ Now - m.created_at[1] < 7 * 86400

\* the one cause the priority rule gives for sender m under the flags
CauseByPriority(m, flags) ==
    IF AgeUnder7Days(m) /\ flags.block_new_accounts THEN <<"NEW_ACCOUNT">>
    ELSE IF m.followers_count < 15 /\ flags.block_low_followers THEN <<"LOW_FOLLOWERS">>
    ELSE <<>>

\* the causes of the queueActions calls
Causes(q) == [i \in 1..Len(q) |-> q[i].cause]

\* C7: a run of the reload callback enqueues at most one block, of the
\* sender for the recipient, with the cause the priority rule gives under the
\* flags the recipient holds after the reload; no other run enqueues
\* anything, and a mention by the recipient itself or by a sender with no
\* creation time is skipped.
OneBlockByPriority ==
    /\ Len(queued) <= 1
    /\ \A i \in 1..Len(queued) :
          /\ queued[i].source = recipient.uid
          /\ queued[i].sinks = <<Sender.id_str>>
          /\ queued[i].type = "BLOCK"
    /\ lastEval.stage = "decided" => Causes(queued) = CauseByPriority(Sender, Flags(recipient))
    /\ lastEval.stage # "decided" => queued = <<>>
    /\ (lastEval.user # <<>> /\ (Sender.id_str = recipient.uid \/ Sender.created_at = <<>>))
          => lastEval.stage = "skipped"

\* a new account with few followers mentions a recipient with both options
\* enabled, and the one block is for NEW_ACCOUNT
OneBlockByPriorityWitness ==
    /\ lastEval.stage = "decided"
    /\ AgeUnder7Days(Sender) /\ Sender.followers_count < 15
    /\ recipient.block_new_accounts /\ recipient.block_low_followers
    /\ Causes(queued) = <<"NEW_ACCOUNT">>

\* C8: the decision is the one the priority rule gives under the flags of
\* the recipient's row when the reload completes.
DecisionByRowAtReload ==
    lastEval.stage = "decided" => Causes(queued) = CauseByPriority(Sender, lastEval.row)

\* block_new_accounts was off when the stream started and on in the row at
\* the reload, and the block is enqueued; block_low_followers was on and is
\* then off, and no block is enqueued for it
DecisionByRowAtReloadWitness ==
    /\ lastEval.stage = "decided"
    /\ \/ /\ ~atStart.block_new_accounts /\ lastEval.row.block_new_accounts
          /\ Causes(queued) = <<"NEW_ACCOUNT">>
       \/ /\ atStart.block_low_followers /\ ~lastEval.row.block_low_followers
          /\ Sender.followers_count < 15
          /\ queued = <<>>
    /\ Causes(queued) # CauseByPriority(Sender, atStart)

\* the places of sender id in the result set
Places(id) == {i \in 1..Len(mentions) : mentions[i].user.id_str = id}

First(places) == CHOOSE i \in places : \A j \in places : i <= j

Last(places) == CHOOSE i \in places : \A j \in places : i >= j

\* C10 as claimed: the record checkReplyAndBlock gets for a sender is the one
\* of the sender's first mention in the result set.
FirstOccurrenceEvaluated ==
    fetchDone =>
        \A i \in 1..Len(evaluated) :
            LET m == evaluated[i].user[1]
            IN m = mentions[First(Places(m.id_str))].user

\* C10 amended: it is the record of the sender's last mention in the result
\* set, the oldest one.
LastOccurrenceEvaluated ==
    fetchDone =>
        \A i \in 1..Len(evaluated) :
            LET m == evaluated[i].user[1]
            IN m = mentions[Last(Places(m.id_str))].user

\* a sender whose first and last mentions carry different records has been
\* evaluated
LastOccurrenceEvaluatedWitness ==
    /\ fetchDone
    /\ \E i \in 1..Len(evaluated) :
          LET places == Places(evaluated[i].user[1].id_str)
          IN /\ Cardinality(places) >= 2
             /\ mentions[First(places)].user # mentions[Last(places)].user

\* the evaluations of sender id that the callback of the fetch made
EvaluationsOf(id) == {i \in 1..Len(evaluated) : evaluated[i].user[1].id_str = id}

\* C11: after a catch-up fetch that succeeded, every sender id of the result
\* set has been handed to checkReplyAndBlock exactly once, however many of
\* the statuses are from that sender, and nobody else has been.
EachSenderEvaluatedOnce ==
    (fetchDone /\ ~fetchErr) =>
        /\ \A i \in 1..Len(mentions) :
              Cardinality(EvaluationsOf(mentions[i].user.id_str)) = 1
        /\ \A i \in 1..Len(evaluated) :
              /\ evaluated[i].fn = "checkReplyAndBlock"
              /\ evaluated[i].uid = "u1"
              /\ Places(evaluated[i].user[1].id_str) # {}

\* three mentions of one sender gave one evaluation
EachSenderEvaluatedOnceWitness ==
    /\ fetchDone /\ ~fetchErr
    /\ Len(mentions) = 3
    /\ \A i \in 1..Len(mentions) : mentions[i].user.id_str = "a"
    /\ Len(evaluated) = 1

\* the requests of account u whose endCallback runs in this step with a
\* status code for revoked or expired credentials
EndsRevoked(u) ==
    {s \in Opened(u) : endCallback(s, 401) \/ endCallback(s, 403)}

\* 1 if a disconnect message for u with code 6, 13 or 14 is handled in this
\* step, else 0
DisconnectRevoked(u) ==
    IF /\ ~handled /\ handled'
       /\ delivered.to = u
       /\ delivered.data.disconnect # <<>>
       /\ delivered.data.disconnect[1] \in {6, 13, 14}
    THEN 1 ELSE 0

\* C12: a run of endCallback with status 401 or 403 calls verifyCredentials
\* and then deletes the entry of the account; with any other status it does
\* not call it.  A disconnect message calls it exactly when its code is 6,
\* 13 or 14, and leaves streams and the requests' lives as they are.
\* Nothing else calls it.
RevalidateOnRevocation ==
    /\ [][\A s \in 1..Len(reqs), statusCode \in StatusCodes :
            endCallback(s, statusCode) =>
                IF statusCode = 401 \/ statusCode = 403
                THEN /\ endCallbackStatements(statusCode) = <<"verifyCredentials", "delete">>
                     /\ verifyCalls'[reqs[s].uid] = verifyCalls[reqs[s].uid] + 1
                     /\ reqs[s].uid \notin DOMAIN streams'
                ELSE /\ "verifyCredentials" \notin Range(endCallbackStatements(statusCode))
                     /\ verifyCalls' = verifyCalls]_vars
    /\ [][\A u \in Uids :
            verifyCalls'[u] = verifyCalls[u] + Cardinality(EndsRevoked(u)) + DisconnectRevoked(u)]_vars
    /\ [][(~handled /\ handled') =>
            /\ streams' = streams
            /\ cooldowns' = cooldowns
            /\ \A s \in 1..Len(reqs) : reqs'[s].ends = reqs[s].ends]_vars

\* a stream of u1 got the disconnect message for a suspended account, a
\* request of u1 has ended and the entry is deleted, and verifyCredentials
\* has been called twice: once for the message, once for the end
RevalidateOnRevocationWitness ==
    /\ handled
    /\ delivered.data.disconnect = <<14>>
    /\ \E s \in Opened("u1") : reqs[s].ends = 1
    /\ "u1" \notin DOMAIN streams
    /\ verifyCalls["u1"] = 2

\* the request s is the one streams holds for its account, and its
\* connection failed or it was aborted after its idle window
BrokenEntry(s) ==
    /\ s \in 1..Len(reqs)
    /\ reqs[s].dead \/ reqs[s].aborted
    /\ Lookup(streams, reqs[s].uid) = s

\* streams does not hold the request s any more: its account has no entry,
\* and is sampled again if it is active with an option enabled, or has the
\* entry of a request opened after s
EntryGone(s) ==
    /\ s \in 1..Len(reqs)
    /\ LET u == reqs[s].uid
       IN \/ /\ u \notin DOMAIN streams
             /\ (~store[u].deactivatedAt
                    /\ (store[u].block_new_accounts \/ store[u].block_low_followers))
                  => \A users \in Samples(Eligible(DOMAIN streams)) : u \in users
          \/ /\ u \in DOMAIN streams
             /\ streams[u] > s

EntryKeptDuringCooldown ==
    [][\A u \in Uids :
          (InCooldown(u) /\ u \in DOMAIN streams) => u \in DOMAIN streams']_vars

\* C15: when endCallback has run with a status other than 420, streams holds
\* no entry for the account, and the account matches the where clause of the
\* next tick if it is active and has an option enabled.
NoEntryAfterOtherStatus ==
    [][\A s \in 1..Len(reqs), statusCode \in StatusCodes \ {420} :
          endCallback(s, statusCode) =>
              LET u == reqs[s].uid
              IN /\ u \notin DOMAIN streams'
                 /\ (~store'[u].deactivatedAt
                        /\ (store'[u].block_new_accounts \/ store'[u].block_low_followers))
                      => u \in Eligible(DOMAIN streams')]_vars

\* the one request of u1 ended with 401 or 403 (verifyCredentials was
\* called), u1 has no entry, and a query holds u1
NoEntryAfterOtherStatusWitness ==
    /\ Len(reqs) = 1
    /\ reqs[1].uid = "u1" /\ reqs[1].ends = 1
    /\ verifyCalls["u1"] = 1
    /\ cooldowns = {}
    /\ "u1" \notin DOMAIN streams
    /\ \E users \in BagToSet(queries) : "u1" \in users

\* the event that dataCallback was handed
Event == delivered.data

\* the rule of the event, the first one that matches: 1 no data, 2 a
\* disconnect message, 3 a warning, 4 an event, 5 anything else
RuleOf(data) ==
    IF ~data.present THEN 1
    ELSE IF data.disconnect # <<>> THEN 2
    ELSE IF data.warning # <<>> THEN 3
    ELSE IF data.event # "" THEN 4
    ELSE 5

\* C16: dataCallback handles an event by its first matching rule only.  No
\* data and a warning call nothing; a disconnect message calls at most
\* verifyCredentials; an event calls handleBlockEvent exactly when it is a
\* block or an unblock, after storeUser for its target if it has one, and
\* nothing else; checkReplyAndBlock is called for the author exactly when no
\* earlier rule matches and the event has a text, an author and no
\* retweeted_status.
FirstMatchingRuleOnly ==
    handled =>
        /\ RuleOf(Event) \in {1, 3} => calls = <<>>
        /\ RuleOf(Event) = 2 => Called(calls) \subseteq {"verifyCredentials"} /\ Len(calls) <= 1
        /\ RuleOf(Event) = 4 =>
              calls = (IF Event.target # <<>>
                       THEN <<[fn |-> "storeUser", uid |-> delivered.to, user |-> Event.target]>>
                       ELSE <<>>)
                      \o (IF Event.event \in {"block", "unblock"}
                          THEN <<[fn |-> "handleBlockEvent", uid |-> delivered.to, user |-> <<>>]>>
                          ELSE <<>>)
        /\ RuleOf(Event) = 5 =>
              calls = IF Event.text # "" /\ Event.user # <<>> /\ ~Event.retweeted_status
                      THEN <<[fn |-> "checkReplyAndBlock", uid |-> delivered.to,
                              user |-> Event.user]>>
                      ELSE <<>>
        /\ "checkReplyAndBlock" \in Called(calls) =>
              Event.disconnect = <<>> /\ Event.warning = <<>> /\ Event.event = ""
        /\ "handleBlockEvent" \in Called(calls) => Event.event \in {"block", "unblock"}

\* a block event that also carries a text and an author went to storeUser
\* and handleBlockEvent only
FirstMatchingRuleOnlyWitness ==
    /\ handled
    /\ Event.event = "block" /\ Event.target # <<>>
    /\ Event.disconnect = <<>> /\ Event.warning = <<>>
    /\ Event.text # "" /\ Event.user # <<>> /\ ~Event.retweeted_status
    /\ Called(calls) = {"storeUser", "handleBlockEvent"}

\* the requests that a step opens
NewRequests == {s \in 1..Len(reqs') : s > Len(reqs)}

\* C17: a step opens a request only for accounts that, when it is opened,
\* have no live request, are not deactivated and have block_new_accounts or
\* block_low_followers set, and one success callback opens at most LIMIT
\* requests.
OpensOnlyWhenEligible ==
    [][/\ \A s \in NewRequests :
             LET u == reqs'[s].uid
             IN /\ Live(u) = {}
                /\ ~store[u].deactivatedAt
                /\ (store[u].block_new_accounts \/ store[u].block_low_followers)
       /\ Cardinality(NewRequests) <= LIMIT]_vars

\* the ids of the timers that are pending
TimerIds(pending) == {t.id : t \in pending}

\* C18: in every state every account has at most one pending
\* remoteUpdateBlocks timer, and a step that sets a timer for an account
\* leaves that new timer as the only one pending for it (the one that was
\* pending is cancelled) and leaves the timers of the other accounts alone.
AtMostOnePendingTimer ==
    /\ [](\A uid \in Recipients : Cardinality(PendingUpdate(uid)) <= 1)
    /\ [][\A uid \in Recipients :
             (\E t \in timeouts' : t.uid = uid /\ t.id \notin TimerIds(timeouts))
                 => /\ \A t \in PendingUpdate(uid) : t.id \notin TimerIds(timeouts')
                    /\ \A t \in timeouts' :
                          t.uid = uid => t.id = updateBlocksTimers'[uid] /\ t.left = DEBOUNCE
                    /\ \A t \in timeouts : t.uid # uid => t \in timeouts']_vars

\* a second event of a burst came while the timer of the first was pending:
\* the one pending timer is the second, and nothing was called
AtMostOnePendingTimerWitness ==
    \E uid \in Recipients :
        /\ burst[uid] >= 2
        /\ updateCalls[uid] = 0
        /\ \E t \in timeouts :
              PendingUpdate(uid) = {t} /\ t.id = updateBlocksTimers[uid] /\ t.id >= 2

-----------------------------------------------------------------------------
(* Failures of the reload and of the catch-up fetch *)

\* the registry after startStream(u1): its request is live, and its catch-up
\* fetch is in flight
Started ==
    startStream([streams |-> [k \in {"dummy"} |-> 1], reqs |-> <<>>,
                 timelineCalls |-> [u \in Uids |-> 0]], "u1")

\* The stream of u1 has just been started with the options its row held; the
\* fetch of its past mentions may fail.
AbandonInit ==
    /\ store \in {[u \in Uids |-> [deactivatedAt |-> FALSE,
                                    block_new_accounts |-> (u = "u1" /\ n),
                                    block_low_followers |-> (u = "u1" /\ l)]] :
                      n \in BOOLEAN, l \in BOOLEAN}
    /\ streams = Started.streams
    /\ reqs = Started.reqs
    /\ timelineCalls = Started.timelineCalls
    /\ queries = EmptyBag
    /\ cooldowns = {}
    /\ verifyCalls = [u \in Uids |-> 0]
    /\ ClassifyIdle
    /\ DebounceInit
    /\ recipient = [uid |-> "u1",
                    block_new_accounts |-> store["u1"].block_new_accounts,
                    block_low_followers |-> store["u1"].block_low_followers]
    /\ atStart = Flags(recipient)
    /\ reloads = EmptyBag
    /\ queued = <<>>
    /\ lastEval = [user |-> <<>>, stage |-> "none", row |-> atStart]
    /\ mentions \in {tl \in Timelines : Len(tl) <= 1}
    /\ fetchErr \in BOOLEAN
    /\ fetchDone = FALSE
    /\ evaluated = <<>>

\* mentions on the stream, their reloads, and the callback of the fetch
AbandonNext ==
    \/ \E data \in MentionData : mention(data)
    \/ \E r \in BagToSet(reloads) : reloadSuccess(r)
    \/ \E r \in BagToSet(reloads) : reloadError(r)
    \/ getTimelineCallback

AbandonSpec == AbandonInit /\ [][AbandonNext]_vars

\* a step in which a reload fails
ReloadFails == lastEval'.stage = "failed" /\ reloads' # reloads

\* a step in which the callback of a failed fetch runs
FetchFails == fetchErr /\ ~fetchDone /\ fetchDone'

\* C19: a reload that fails enqueues no block and leaves streams and the
\* requests as they were, and the callback of a failed getTimeline call
\* calls checkReplyAndBlock for nobody and leaves them as they were too.
FailureAbandons ==
    /\ [](lastEval.stage = "failed" => queued = <<>>)
    /\ [](fetchDone /\ fetchErr => evaluated = <<>>)
    /\ [][ReloadFails =>
            /\ UNCHANGED <<registryVars, store, recipient>>
            /\ queued' = <<>>
            /\ Live("u1")' = Live("u1")]_vars
    /\ [][FetchFails =>
            /\ UNCHANGED <<registryVars, store, decideVars>>
            /\ evaluated' = <<>>
            /\ Live("u1")' = Live("u1")]_vars

\* the fetch of a mention has failed and so has the reload for a sender whom
\* the flags of the recipient would block, and the request of u1 is live
FailureAbandonsWitness ==
    /\ lastEval.stage = "failed"
    /\ decide(recipient, age(lastEval.user[1]), lastEval.user[1]) # <<>>
    /\ fetchDone /\ fetchErr /\ mentions # <<>>
    /\ Lookup(streams, "u1") \in Live("u1")

\* the request that streams holds for u is live
HoldsLive(u) == Lookup(streams, u) \in Live(u)

\* C20: in every state every live request is the one streams holds for its
\* account, and no step removes or replaces the entry of an account while
\* the request it holds is live after the step.
LiveSessionIsRegistered ==
    /\ [](\A u \in Uids : \A s \in Live(u) : Lookup(streams, u) = s)
    /\ [][\A u \in Uids :
             (HoldsLive(u) /\ reqs'[streams[u]].ends = 0)
                 => Lookup(streams', u) = streams[u]]_vars

====
